---- MODULE Spec2Model ----
(***************************************************************************)
(* A model of biokit's Taxonomy class (src/biokit/taxonomy/taxonomy.py):   *)
(* the flat-file record store (load_records, _interpret_record), the       *)
(* lineage walker (get_lineage, get_lineage_and_rank,                      *)
(* _gen_lineage_and_rank), the children scan (get_children) and the family *)
(* tree builder (get_family_tree, _get_family_tree_uniprot).               *)
(*                                                                         *)
(* Python values are modelled as follows.                                  *)
(*   - an int is a TLA+ integer;                                           *)
(*   - a str of a numeric field is the sequence of its characters, a digit *)
(*     being the number 0..9 and any other character a code above 9, so    *)
(*     that int() and str() are real conversions;                          *)
(*   - a line "LABEL : value" of the flat file is the pair <<LABEL, value>>*)
(*     and a block of the file is the sequence of its lines;               *)
(*   - a dict is a function; a missing key is a key outside its DOMAIN;    *)
(*   - a raised exception is the record [raised |-> name].                 *)
(* dict iteration is modelled in ascending key order; no property below    *)
(* depends on the order of the keys.                                       *)
(***************************************************************************)
EXTENDS Integers, Sequences, FiniteSets, TLC

VARIABLES
    file,        \* the text of biokitPATH/taxonomy.dat: a sequence of blocks
    records,     \* self.records: identifier (int) -> dict
    python3,     \* the interpreter: Exception has no .message on Python 3
    default_acc, \* the list object that is the default of lineage_rank=[]
    pc,          \* "idle", or "tree" inside _get_family_tree_uniprot's loop
    tree,        \* _get_family_tree_uniprot: the local list tree
    children,    \* _get_family_tree_uniprot: the local list children
    limits,      \* _get_family_tree_uniprot: the argument limits
    diag,        \* whether 'Reached limit number of nodes' was printed
    last         \* the last call that returned or raised, with its outcome

vars == <<file, records, python3, default_acc, pc, tree, children, limits,
          diag, last>>

(***************************************************************************)
(* Bounds of the model.                                                    *)
(***************************************************************************)
MaxTaxon == 3

MaxLimit == 2

MaxEdges == 7

MaxBlocks == 2

MaxLoadId == 2

(***************************************************************************)
(* str and int.                                                            *)
(***************************************************************************)
Digits == 0..9

RECURSIVE StrOf(_)
\* str(n) of a non-negative int: its decimal digits, no leading zero
StrOf(n) == IF n < 10 THEN <<n>> ELSE Append(StrOf(n \div 10), n % 10)

RECURSIVE IntOf(_)
\* int(s) of a str of digits (leading zeros allowed)
IntOf(s) ==
    IF Len(s) = 0 THEN 0
    ELSE 10 * IntOf(SubSeq(s, 1, Len(s) - 1)) + s[Len(s)]

RECURSIVE DigitPrefix(_)
\* what the group (\d+) captures at the start of a value: its leading digits
DigitPrefix(v) ==
    IF Len(v) = 0 \/ v[1] \notin Digits THEN <<>>
    ELSE <<v[1]>> \o DigitPrefix(Tail(v))

\* Python values that are an int or a str, told apart by their tag
PyInt(n) == [int |-> n]

PyStr(s) == [str |-> s]

\* str(x)
ToStr(x) == IF "int" \in DOMAIN x THEN StrOf(x.int) ELSE x.str

(***************************************************************************)
(* The flat file.  load_records strips the text and splits it on "//\n":   *)
(* every block but the last loses its separator, the last keeps the "//"   *)
(* that the strip left without its newline, and an empty text gives one    *)
(* empty block.                                                            *)
(***************************************************************************)
Terminator == <<"//", <<>>>>

\* data = f.read().strip().split("//\n") of a file that holds the blocks
\* text[1], text[2], ..., each followed by a line "//"
SplitBlocks(text) ==
    IF Len(text) = 0 THEN << <<>> >>
    ELSE [i \in 1..Len(text) |->
            IF i = Len(text) THEN Append(text[i], Terminator) ELSE text[i]]

\* labels in which the pattern 'ID\s+\:\s*(\d+)\s*' finds "ID   :": the
\* pattern is searched, not anchored, so "PARENT ID :" matches as well
IdLabels == {"ID", "PARENT ID"}

\* re.search over the block: the first line whose label is one of labels
\* and whose value gives the group a match (0 when there is none)
FirstMatch(record, labels, numeric) ==
    LET hits == {i \in 1..Len(record) :
                    /\ record[i][1] \in labels
                    /\ IF numeric THEN DigitPrefix(record[i][2]) # <<>>
                                  ELSE record[i][2] # <<>>}
    IN IF hits = {} THEN 0
       ELSE CHOOSE i \in hits : \A j \in hits : i <= j

child_match(record) == FirstMatch(record, IdLabels, TRUE)

parent_match(record) == FirstMatch(record, {"PARENT ID"}, TRUE)

name_match(record) == FirstMatch(record, {"SCIENTIFIC NAME"}, FALSE)

rank_match(record) == FirstMatch(record, {"RANK"}, FALSE)

\* _interpret_record: 'raw' always, the other keys only when their pattern
\* matched
interpret_record(record) ==
    LET mi == child_match(record)
        mp == parent_match(record)
        mn == name_match(record)
        mr == rank_match(record)
        keys == {"raw"} \cup (IF mi # 0 THEN {"id"} ELSE {})
                        \cup (IF mp # 0 THEN {"parent"} ELSE {})
                        \cup (IF mn # 0 THEN {"scientific_name"} ELSE {})
                        \cup (IF mr # 0 THEN {"rank"} ELSE {})
    IN [k \in keys |->
          CASE k = "raw" -> record
            [] k = "id" -> DigitPrefix(record[mi][2])
            [] k = "parent" -> DigitPrefix(record[mp][2])
            [] k = "scientific_name" -> record[mn][2]
            [] k = "rank" -> record[mr][2]]

\* the empty dict
EmptyStore == [k \in {} |-> <<>>]

\* self.records[identifier] = dico
StoreSet(recs, identifier, dico) ==
    [k \in DOMAIN recs \cup {identifier} |->
        IF k = identifier THEN dico ELSE recs[k]]

\* the except clause of load_records begins with print(err.message):
\* Python 2 prints the message and goes on to the next block; on Python 3
\* the exception has no attribute message and AttributeError leaves the loop
HandlerRaises(py3) == py3

RECURSIVE load_loop(_, _, _, _, _)
\* the for loop of load_records from block i on: the store it leaves, the
\* blocks it printed as unparsable, and the exception that ended it
load_loop(data, i, recs, printed, py3) ==
    IF i > Len(data) THEN [records |-> recs, printed |-> printed,
                           raised |-> "none"]
    ELSE LET dico == interpret_record(data[i])
         IN IF "id" \in DOMAIN dico
            THEN load_loop(data, i + 1,
                           StoreSet(recs, IntOf(dico["id"]), dico),
                           printed, py3)
            ELSE IF HandlerRaises(py3)
                 THEN [records |-> recs, printed |-> printed,
                       raised |-> "AttributeError"]
                 ELSE load_loop(data, i + 1, recs,
                                Append(printed, data[i]), py3)

\* a load that keeps the dict it finds
ResetStoreOmitted(recs) == recs

\* what load_records starts the loop with: self.records = {}
ResetStore(recs) == EmptyStore

\* load_records once the file is in place
load_records(text, recs, py3) ==
    load_loop(SplitBlocks(text), 1, ResetStore(recs), <<>>, py3)

(***************************************************************************)
(* Outcomes of a call.                                                     *)
(***************************************************************************)
Returned(v) == [value |-> v]

Raised(e) == [raised |-> e]

IsRaised(r) == "raised" \in DOMAIN r

IsReturned(r) == "value" \in DOMAIN r

\* the call has not ended yet
Running == [running |-> TRUE]

\* a walker that returns the accumulated list as it stands
ReverseOmitted(s) == s

RECURSIVE Reverse(_)
\* list.reverse()
Reverse(s) == IF Len(s) = 0 THEN <<>> ELSE Append(Reverse(Tail(s)), Head(s))

(***************************************************************************)
(* The lineage walker.                                                     *)
(***************************************************************************)
RECURSIVE gen_lineage_and_rank(_, _, _, _)
\* _gen_lineage_and_rank on a loaded store: the outcome, and the state in
\* which the call leaves the list it was given.  A walk of more calls than
\* the store has records is on a parent cycle and ends only when Python's
\* recursion limit is hit.
gen_lineage_and_rank(recs, taxon, lineage_rank, depth) ==
    IF depth > Cardinality(DOMAIN recs)
    THEN [result |-> Raised("RecursionError"), list |-> lineage_rank]
    ELSE IF taxon \notin DOMAIN recs
    THEN [result |-> Raised("KeyError"), list |-> lineage_rank]
    ELSE LET record == recs[taxon]
         IN IF "parent" \notin DOMAIN record
            THEN [result |-> Raised("KeyError"), list |-> lineage_rank]
            ELSE LET parent == IntOf(record["parent"])
                 IN IF parent # 0
                    THEN IF \/ "scientific_name" \notin DOMAIN record
                            \/ "rank" \notin DOMAIN record
                         THEN [result |-> Raised("KeyError"),
                               list |-> lineage_rank]
                         ELSE gen_lineage_and_rank(recs, parent,
                                Append(lineage_rank,
                                       <<record["scientific_name"],
                                         record["rank"]>>),
                                depth + 1)
                    ELSE [result |-> Returned(Reverse(lineage_rank)),
                          list |-> Reverse(lineage_rank)]

\* a public call that leaves the second argument out
LineageArgumentOmitted == "default"

\* the list the public lineage calls hand to _gen_lineage_and_rank: the
\* literal [] is a new list ("fresh"); leaving the argument out would hand
\* over the one list object of the default ("default")
LineageArgument == "fresh"

\* lineage = [x[0] for x in lineage]
NamesOf(lineage) == [i \in 1..Len(lineage) |-> lineage[i][1]]

(***************************************************************************)
(* The children scan.                                                      *)
(***************************************************************************)
RECURSIVE KeysInOrder(_)
\* the keys of a dict as a list
KeysInOrder(keys) ==
    IF keys = {} THEN <<>>
    ELSE LET k == CHOOSE x \in keys : \A y \in keys : x <= y
         IN <<k>> \o KeysInOrder(keys \ {k})

\* the condition of the comprehension of get_children
IsChildOf(record, taxon) == record["parent"] = taxon

\* get_children on a loaded store; taxon is a tagged int or str.  The
\* comprehension reads ['parent'] of every record of the store.
get_children(recs, taxon) ==
    LET t == ToStr(taxon)
        keys == KeysInOrder(DOMAIN recs)
    IN IF \E k \in DOMAIN recs : "parent" \notin DOMAIN recs[k]
       THEN Raised("KeyError")
       ELSE LET kept == SelectSeq(keys, LAMBDA k : IsChildOf(recs[k], t))
            IN Returned([i \in 1..Len(kept) |-> recs[kept[i]]["id"]])

(***************************************************************************)
(* One iteration of the while loop of _get_family_tree_uniprot.            *)
(***************************************************************************)
RECURSIVE expand(_, _, _, _, _)
\* the for loop over children from position i on
expand(recs, frontier, i, new_children, edges) ==
    IF i > Len(frontier)
    THEN [raised |-> "none", new_children |-> new_children, edges |-> edges]
    ELSE LET parent == frontier[i]
             got == get_children(recs, parent)
         IN IF IsRaised(got)
            THEN [raised |-> got.raised, new_children |-> new_children,
                  edges |-> edges]
            ELSE expand(recs, frontier, i + 1,
                        new_children \o
                          [j \in 1..Len(got.value) |-> PyStr(got.value[j])],
                        edges \o
                          [j \in 1..Len(got.value) |->
                              <<parent, PyStr(got.value[j])>>])

(***************************************************************************)
(* The state after construction, and the operations.                       *)
(***************************************************************************)
NoCall == [fn |-> "none", arg |-> 0, result |-> Returned(<<>>), start |-> <<>>]

\* Taxonomy.__init__, with the flat file either cached or not
InitWith(files) ==
    /\ file \in files
    /\ records = EmptyStore
    /\ python3 \in BOOLEAN
    /\ default_acc = <<>>
    /\ pc = "idle"
    /\ tree = <<>>
    /\ children = <<>>
    /\ limits = 0
    /\ diag = FALSE
    /\ last = NoCall

Cached(text) == [exists |-> TRUE, text |-> text]

NotCached == [exists |-> FALSE, text |-> <<>>]

\* _load_flat_file: the texts the file may hold afterwards; remote is what
\* the FTP server may serve
load_flat_file(overwrite, remote) ==
    IF file.exists /\ ~overwrite THEN {file.text} ELSE remote

\* if len(self.records) == 0: self.load_records()
EnsureLoaded(text) ==
    IF Cardinality(DOMAIN records) = 0
    THEN load_records(text, records, python3)
    ELSE [records |-> records, printed |-> <<>>, raised |-> "none"]

TreeUnchanged == UNCHANGED <<pc, tree, children, limits, diag>>

\* load_records(overwrite)
LoadRecords(overwrite, remote) ==
    /\ pc = "idle"
    /\ \E text \in load_flat_file(overwrite, remote) :
          LET ld == load_records(text, records, python3)
          IN /\ file' = Cached(text)
             /\ records' = ld.records
             /\ last' = [fn |-> "load_records", arg |-> 0,
                         result |-> IF ld.raised = "none"
                                    THEN Returned(ld.printed)
                                    ELSE Raised(ld.raised), start |-> <<>>]
    /\ UNCHANGED <<python3, default_acc>>
    /\ TreeUnchanged

\* the body shared by get_lineage and get_lineage_and_rank
Lineage(fn, taxon, remote) ==
    /\ pc = "idle"
    /\ \E text \in load_flat_file(FALSE, remote) :
          LET lazy == Cardinality(DOMAIN records) = 0
              ld == EnsureLoaded(text)
              shared == LineageArgument = "default"
              start == IF shared THEN default_acc ELSE <<>>
              w == gen_lineage_and_rank(ld.records, taxon, start, 0)
              failed == ld.raised # "none"
          IN /\ file' = IF lazy THEN Cached(text) ELSE file
             /\ records' = ld.records
             /\ default_acc' = IF shared /\ ~failed THEN w.list
                                ELSE default_acc
             /\ last' = [fn |-> fn, arg |-> taxon,
                         result |->
                           IF failed THEN Raised(ld.raised)
                           ELSE IF IsRaised(w.result) THEN w.result
                           ELSE IF fn = "get_lineage"
                                THEN Returned(NamesOf(w.result.value))
                                ELSE w.result, start |-> start]
    /\ UNCHANGED python3
    /\ TreeUnchanged

GetLineage(taxon, remote) == Lineage("get_lineage", taxon, remote)

GetLineageAndRank(taxon, remote) ==
    Lineage("get_lineage_and_rank", taxon, remote)

\* get_children(taxon), called from outside
GetChildren(taxon, remote) ==
    /\ pc = "idle"
    /\ \E text \in load_flat_file(FALSE, remote) :
          LET lazy == Cardinality(DOMAIN records) = 0
              ld == EnsureLoaded(text)
          IN /\ file' = IF lazy THEN Cached(text) ELSE file
             /\ records' = ld.records
             /\ last' = [fn |-> "get_children", arg |-> taxon,
                         result |-> IF ld.raised # "none"
                                    THEN Raised(ld.raised)
                                    ELSE get_children(ld.records,
                                                      PyInt(taxon)), start |-> <<>>]
    /\ UNCHANGED <<python3, default_acc>>
    /\ TreeUnchanged

\* get_family_tree(taxon, limits): the test `method == 'uniprot'` reads a
\* name that is bound nowhere
GetFamilyTree(taxon, lim) ==
    /\ pc = "idle"
    /\ last' = [fn |-> "get_family_tree", arg |-> taxon,
                result |-> Raised("NameError"),
                start |-> <<>>]
    /\ limits' = lim
    /\ diag' = FALSE
    /\ UNCHANGED <<file, records, python3, default_acc, pc, tree, children>>

\* _get_family_tree_uniprot(taxon, limits) up to the while loop
TreeStart(taxon, lim) ==
    /\ pc = "idle"
    /\ pc' = "tree"
    /\ tree' = <<>>
    /\ children' = <<PyInt(taxon)>>
    /\ limits' = lim
    /\ diag' = FALSE
    /\ last' = [fn |-> "get_family_tree_uniprot", arg |-> taxon,
                result |-> Running, start |-> <<>>]
    /\ UNCHANGED <<file, records, python3, default_acc>>

\* one iteration of `while len(children) != 0`
TreeRound(remote) ==
    /\ pc = "tree"
    /\ Len(children) # 0
    /\ Len(tree) < MaxEdges
    /\ \E text \in load_flat_file(FALSE, remote) :
          LET lazy == Cardinality(DOMAIN records) = 0
              ld == EnsureLoaded(text)
              r == expand(ld.records, children, 1, <<>>, tree)
              raised == IF ld.raised # "none" THEN ld.raised ELSE r.raised
          IN /\ file' = IF lazy THEN Cached(text) ELSE file
             /\ records' = ld.records
             /\ IF raised # "none"
                THEN /\ pc' = "idle"
                     /\ last' = [last EXCEPT !.result = Raised(raised)]
                     /\ tree' = <<>>
                     /\ children' = <<>>
                     /\ UNCHANGED diag
                ELSE /\ tree' = r.edges
                     /\ children' = r.new_children
                     /\ diag' = (diag \/ Len(r.edges) > limits)
                     /\ UNCHANGED <<pc, last>>
    /\ UNCHANGED <<python3, default_acc, limits>>

\* return tree
TreeReturn ==
    /\ pc = "tree"
    /\ Len(children) = 0
    /\ pc' = "idle"
    /\ last' = [last EXCEPT !.result = Returned(tree)]
    /\ tree' = <<>>
    /\ children' = <<>>
    /\ UNCHANGED <<file, records, python3, default_acc, limits, diag>>

(***************************************************************************)
(* The flat files of the model.                                            *)
(***************************************************************************)
TaxonIds == 1..MaxTaxon

\* the taxa asked about: those of the file and one that no file holds
QueryTaxa == 1..(MaxTaxon + 1)

NameOf(k) == <<"name", k>>

RankOf(k) == <<"rank", k>>

\* the block of taxon k with parent p, as the EBI file writes it, less the
\* line that missing names
TaxonBlock(k, p, missing) ==
    << <<"ID", StrOf(k)>> >>
    \o (IF missing = "parent" THEN <<>> ELSE << <<"PARENT ID", StrOf(p)>> >>)
    \o (IF missing = "rank" THEN <<>> ELSE << <<"RANK", RankOf(k)>> >>)
    \o (IF missing = "name" THEN <<>>
        ELSE << <<"SCIENTIFIC NAME", NameOf(k)>> >>)

\* -1: the file has no block for the taxon
ParentChoices == {-1} \cup (0..MaxTaxon)

\* the last block of a file may lack one of its lines
Defects == {"none", "parent", "name", "rank"}

RECURSIVE TaxonBlocks(_, _, _)
TaxonBlocks(c, d, k) ==
    IF k > MaxTaxon THEN <<>>
    ELSE (IF c[k] = -1 THEN <<>>
          ELSE <<TaxonBlock(k, c[k],
                            IF \A j \in (k + 1)..MaxTaxon : c[j] = -1
                            THEN d ELSE "none")>>)
         \o TaxonBlocks(c, d, k + 1)

\* files with one block per taxon, in ascending order of identifier
Corpora ==
    {TaxonBlocks(c, d, 1) : c \in [TaxonIds -> ParentChoices], d \in Defects}

\* blocks for the loader: the block of taxon i, whose parent is taxon i - 1,
\* and blocks without an ID line, with or without a PARENT ID line
LoadIds == 1..MaxLoadId

WellFormedBlock(i) == TaxonBlock(i, i - 1, "none")

MalformedBlock(p) ==
    (IF p = 0 THEN <<>> ELSE << <<"PARENT ID", StrOf(p)>> >>)
    \o << <<"RANK", RankOf(p)>> >>

LoadBlocks ==
    {WellFormedBlock(i) : i \in LoadIds}
    \cup {MalformedBlock(p) : p \in {0} \cup LoadIds}

RECURSIVE SeqsUpTo(_, _)
SeqsUpTo(S, n) ==
    IF n = 0 THEN {<<>>}
    ELSE LET shorter == SeqsUpTo(S, n - 1)
         IN shorter \cup {Append(q, b) : q \in shorter, b \in S}

LoadCorpora == SeqsUpTo(LoadBlocks, MaxBlocks)

(***************************************************************************)
(* Specifications.                                                         *)
(***************************************************************************)
\* lineage, lineage-and-rank and children queries over a cached flat file
Init == InitWith({Cached(c) : c \in Corpora})

Next ==
    \/ LoadRecords(FALSE, Corpora)
    \/ \E t \in QueryTaxa : GetLineage(t, Corpora)
    \/ \E t \in QueryTaxa : GetLineageAndRank(t, Corpora)
    \/ \E t \in QueryTaxa : GetChildren(t, Corpora)

Spec == Init /\ [][Next]_vars

\* the lineage walker alone
NextLineage ==
    \/ LoadRecords(FALSE, Corpora)
    \/ \E t \in QueryTaxa : GetLineage(t, Corpora)
    \/ \E t \in QueryTaxa : GetLineageAndRank(t, Corpora)

SpecLineage == Init /\ [][NextLineage]_vars

\* family trees over a cached flat file
NextTree ==
    \/ LoadRecords(FALSE, Corpora)
    \/ \E t \in QueryTaxa, lim \in 0..MaxLimit : GetFamilyTree(t, lim)
    \/ \E t \in QueryTaxa, lim \in 0..MaxLimit : TreeStart(t, lim)
    \/ TreeRound(Corpora)
    \/ TreeReturn

SpecTree == Init /\ [][NextTree]_vars

\* loading and reloading, the flat file fetched anew when asked to
InitLoad == InitWith({NotCached} \cup {Cached(c) : c \in LoadCorpora})

NextLoad == \E overwrite \in BOOLEAN : LoadRecords(overwrite, LoadCorpora)

SpecLoad == InitLoad /\ [][NextLoad]_vars

(***************************************************************************)
(* The store as the specification describes it.                            *)
(***************************************************************************)
HasParent(recs, k) == k \in DOMAIN recs /\ "parent" \in DOMAIN recs[k]

ParentId(recs, k) == IntOf(recs[k]["parent"])

RECURSIVE PathToRoot(_, _, _)
\* the taxa from t up to the record with parent_id = 0 that its parent links
\* reach, t first; <<>> when they reach none within fuel records
PathToRoot(recs, t, fuel) ==
    IF fuel = 0 \/ ~HasParent(recs, t) THEN <<>>
    ELSE IF ParentId(recs, t) = 0 THEN <<t>>
    ELSE LET up == PathToRoot(recs, ParentId(recs, t), fuel - 1)
         IN IF up = <<>> THEN <<>> ELSE <<t>> \o up

RECURSIVE ReachesAbsent(_, _, _)
\* the parent links from t lead to an identifier the store does not hold
ReachesAbsent(recs, t, fuel) ==
    \/ t \notin DOMAIN recs
    \/ /\ fuel > 0
       /\ HasParent(recs, t)
       /\ ParentId(recs, t) # 0
       /\ ReachesAbsent(recs, ParentId(recs, t), fuel - 1)

ChildrenOf(recs, p) == {k \in DOMAIN recs : HasParent(recs, k) /\ ParentId(recs, k) = p}

RECURSIVE Below(_, _, _)
\* the taxa within n parent steps below the taxa of S
Below(recs, S, n) ==
    IF n = 0 THEN {}
    ELSE LET kids == UNION {ChildrenOf(recs, p) : p \in S}
         IN kids \cup Below(recs, kids, n - 1)

\* the transitive descendants of root
Descendants(recs, root) == Below(recs, {root}, Cardinality(DOMAIN recs))

\* no taxon is its own descendant
Acyclic(recs) == \A k \in DOMAIN recs : k \notin Descendants(recs, k)

RECURSIVE DepthBelow(_, _, _, _)
\* the number of parent steps from k up to root (acyclic stores)
DepthBelow(recs, root, k, fuel) ==
    IF k = root \/ fuel = 0 \/ ~HasParent(recs, k) THEN 0
    ELSE 1 + DepthBelow(recs, root, ParentId(recs, k), fuel - 1)

LineageCalls == {"get_lineage", "get_lineage_and_rank"}

StoreSize == Cardinality(DOMAIN records)

(***************************************************************************)
(* Lineage.                                                                *)
(***************************************************************************)
\* what a lineage call reports of taxon k
LineageEntry(fn, k) ==
    IF fn = "get_lineage" THEN records[k]["scientific_name"]
    ELSE <<records[k]["scientific_name"], records[k]["rank"]>>

\* the fields of taxon k that the result of the call is made of
EntryFields(fn) ==
    IF fn = "get_lineage" THEN {"scientific_name"}
    ELSE {"scientific_name", "rank"}

\* C1: when the parent links from t reach a record with parent_id = 0,
\* get_lineage_and_rank(t) returns the (name, rank) pairs of the taxa below
\* that root on the path, the root's child first and t last, as many as
\* there are parent steps from t to the root, and get_lineage(t) returns
\* their names; for a root both return the empty sequence.  The claim is
\* read of the stores that hold, for every taxon on the path, the fields
\* the result is made of.
C1_LineageIsPathBelowRoot ==
    LET path == PathToRoot(records, last.arg, StoreSize)
        n == Len(path)
    IN (/\ last.fn \in LineageCalls
        /\ n > 0
        /\ \A i \in 1..(n - 1) :
              EntryFields(last.fn) \subseteq DOMAIN records[path[i]])
       => last.result =
            Returned([j \in 1..(n - 1) |-> LineageEntry(last.fn, path[n - j])])

\* C1 over the stores whose records on the path all have a name and a rank
C1_OverCompleteRecords ==
    LET path == PathToRoot(records, last.arg, StoreSize)
        n == Len(path)
    IN (/\ last.fn \in LineageCalls
        /\ n > 0
        /\ \A i \in 1..(n - 1) :
              {"scientific_name", "rank"} \subseteq DOMAIN records[path[i]])
       => last.result =
            Returned([j \in 1..(n - 1) |-> LineageEntry(last.fn, path[n - j])])

\* the store that holds exactly root 1, its child 2 and its grandchild 3,
\* each with a name and a rank
ChainStore ==
    /\ DOMAIN records = {1, 2, 3}
    /\ \A k \in {1, 2, 3} :
          {"parent", "scientific_name", "rank"} \subseteq DOMAIN records[k]
    /\ ParentId(records, 1) = 0
    /\ ParentId(records, 2) = 1
    /\ ParentId(records, 3) = 2

NameIn(k) == records[k]["scientific_name"]

\* C2, as stated: over the chain 1 <- 2 <- 3, get_lineage(3) returns
\* [name(1), name(2)], without the grandchild's own name, and get_lineage(1)
\* returns the empty sequence.
C2_LineageExcludesSelf ==
    (ChainStore /\ last.fn = "get_lineage")
    => /\ last.arg = 3 => last.result = Returned(<<NameIn(1), NameIn(2)>>)
       /\ last.arg = 1 => last.result = Returned(<<>>)

\* C2, amended: over the chain 1 <- 2 <- 3, get_lineage(3) returns
\* [name(2), name(3)]: the root's name is left out and the grandchild's own
\* name comes last; get_lineage(1) returns the empty sequence.
C2_LineageExcludesRoot ==
    (ChainStore /\ last.fn = "get_lineage")
    => /\ last.arg = 3 => last.result = Returned(<<NameIn(2), NameIn(3)>>)
       /\ last.arg = 1 => last.result = Returned(<<>>)

\* get_lineage(3) has returned over the chain
C2_Witness ==
    /\ ChainStore
    /\ last.fn = "get_lineage"
    /\ last.arg = 3
    /\ IsReturned(last.result)
    /\ Len(last.result.value) = 2

\* C9: every lineage call starts from an empty accumulator, whatever calls
\* came before it, and a call that repeats the call before it over the same
\* store has the same outcome.
C9_LineageCallsIsolated ==
    [][last'.fn \in LineageCalls
       => /\ last'.start = <<>>
          /\ (last.fn = last'.fn /\ last.arg = last'.arg /\ records' = records)
             => last'.result = last.result]_vars

\* a lineage call that started from an empty accumulator has returned a
\* lineage of two taxa, and the default list is still empty
C9_Witness ==
    /\ last.fn \in LineageCalls
    /\ last.start = <<>>
    /\ IsReturned(last.result)
    /\ Len(last.result.value) = 2
    /\ default_acc = <<>>

(***************************************************************************)
(* Missing taxa and children.                                              *)
(***************************************************************************)
\* C7: over a non-empty store, a lineage call on a taxon that is absent, or
\* whose parent links lead to an absent identifier, and a children call on
\* an absent taxon, fail with a lookup error and leave the store as it was.
C7_AbsentTaxonFailsTheCall ==
    [][(/\ StoreSize > 0
        /\ last' # last
        /\ \/ /\ last'.fn \in LineageCalls
              /\ ReachesAbsent(records, last'.arg, StoreSize)
           \/ /\ last'.fn = "get_children"
              /\ last'.arg \notin DOMAIN records)
       => /\ last'.result = Raised("KeyError")
          /\ records' = records]_vars

\* C8: over every non-empty store that load_records built, records without
\* a parent_id included, get_children(t) returns, each once, the identifiers
\* of the records whose parent_id is t.
C8_ChildrenAreTheRecordsWithThatParent ==
    (last.fn = "get_children" /\ StoreSize > 0)
    => /\ IsReturned(last.result)
       /\ LET v == last.result.value
          IN /\ {IntOf(v[i]) : i \in 1..Len(v)} = ChildrenOf(records, last.arg)
             /\ Len(v) = Cardinality(ChildrenOf(records, last.arg))

(***************************************************************************)
(* The family tree.                                                        *)
(***************************************************************************)
\* the identifier that a tagged int or str names
IdOf(x) == IntOf(ToStr(x))

\* v holds every edge between root and its descendants once, and nothing
\* else, the edges of a lesser depth first
EdgesOfSubtree(v, root) ==
    LET below == Descendants(records, root)
        depth(i) == DepthBelow(records, root, IdOf(v[i][2]), StoreSize)
    IN /\ {<<IdOf(v[i][1]), IdOf(v[i][2])>> : i \in 1..Len(v)}
            = {<<ParentId(records, c), c>> : c \in below}
       /\ Len(v) = Cardinality(below)
       /\ \A i \in 1..Len(v) : \A j \in i..Len(v) : depth(i) <= depth(j)

\* C3: when root has more descendants than limits, no iteration of the
\* expansion collects edges once the tree holds more than limits edges, so
\* that the edges returned exceed limits by one iteration's edges at most,
\* and a tree returned with more than limits edges comes with the
\* diagnostic.  Stated of the stores without a parent cycle; C4 is about
\* the others.
C3_ExpansionStopsAtLimit ==
    [][/\ (/\ pc = "tree"
           /\ pc' = "tree"
           /\ tree' # tree
           /\ Acyclic(records')
           /\ Cardinality(Descendants(records', last.arg)) > limits)
          => Len(tree) <= limits
       /\ (/\ pc = "tree"
           /\ pc' = "idle"
           /\ IsReturned(last'.result)
           /\ Len(last'.result.value) > limits)
          => diag]_vars

\* C4: over every store, parent cycles included, the expansion holds at
\* most limits edges plus those of one iteration, which are at most as many
\* as the store has records.
C4_GrowthBoundedByLimit ==
    pc = "tree" => Len(tree) <= limits + StoreSize

\* C5: over an acyclic store, get_family_tree(root, limits) with limits
\* above the number of descendants of root returns the edges between root
\* and its descendants, each once and no other, in breadth-first order.
C5_FamilyTreeReturnsTheSubtree ==
    (/\ last.fn = "get_family_tree"
     /\ StoreSize > 0
     /\ Acyclic(records)
     /\ limits > Cardinality(Descendants(records, last.arg)))
    => /\ IsReturned(last.result)
       /\ EdgesOfSubtree(last.result.value, last.arg)

(***************************************************************************)
(* Loading.                                                                *)
(***************************************************************************)
\* the blocks that the most recent load read
Data == SplitBlocks(file.text)

\* the block has a line "ID : digits"
HasIdLine(block) ==
    \E i \in 1..Len(block) :
        block[i][1] = "ID" /\ DigitPrefix(block[i][2]) # <<>>

\* the identifier on the first ID line of a block that has one
IdOnIdLine(block) ==
    LET i == CHOOSE i \in 1..Len(block) :
                 /\ block[i][1] = "ID"
                 /\ DigitPrefix(block[i][2]) # <<>>
                 /\ \A j \in 1..(i - 1) : block[j][1] # "ID"
    IN IntOf(DigitPrefix(block[i][2]))

\* C6: when one block of the file has no ID line and the others are well
\* formed, with identifiers of their own, load_records returns, the store
\* maps the identifier of every well-formed block to the record of that
\* block, and no entry of the store has the malformed block as its raw text.
\* Stated of the interpreter whose handler goes on to the next block; on the
\* other one the load of such a file does not return at all.
C6_MalformedBlockIsSkipped ==
    \A m \in 1..Len(Data) :
        (/\ last.fn = "load_records"
         /\ ~python3
         /\ Len(file.text) > 0
         /\ ~HasIdLine(Data[m])
         /\ \A i \in 1..Len(Data) : i # m => HasIdLine(Data[i])
         /\ \A i, j \in 1..Len(Data) :
               (i # m /\ j # m /\ i # j)
               => IdOnIdLine(Data[i]) # IdOnIdLine(Data[j]))
        => /\ IsReturned(last.result)
           /\ \A i \in 1..Len(Data) :
                 i # m => /\ IdOnIdLine(Data[i]) \in DOMAIN records
                          /\ records[IdOnIdLine(Data[i])]
                               = interpret_record(Data[i])
           /\ \A k \in DOMAIN records : records[k]["raw"] # Data[m]

\* the blocks that a load of data gets to: all of them, or on an
\* interpreter that leaves the loop at the first block without an
\* identifier, those before it
BlocksReached(data, py3) ==
    LET bad == {i \in 1..Len(data) : child_match(data[i]) = 0}
    IN IF py3 /\ bad # {}
       THEN 1..((CHOOSE i \in bad : \A j \in bad : i <= j) - 1)
       ELSE 1..Len(data)

\* C10: after any sequence of loads, the store is exactly the records parsed
\* from the file that the most recent load read, the last block of each
\* identifier, and nothing of an earlier file; it is therefore the same
\* whenever the same file is loaded again.
C10_StoreIsTheLatestFile ==
    last.fn = "load_records"
    => LET parsed == {i \in BlocksReached(Data, python3) :
                         child_match(Data[i]) # 0}
           key(i) == IntOf(interpret_record(Data[i])["id"])
       IN /\ DOMAIN records = {key(i) : i \in parsed}
          /\ \A i \in parsed :
                (\A j \in parsed : key(j) = key(i) => j <= i)
                => records[key(i)] = interpret_record(Data[i])
          /\ IsReturned(last.result)
                <=> BlocksReached(Data, python3) = 1..Len(Data)

\* a load has returned after printing a block it could not parse, and the
\* store holds a record of the file it read
C10_Witness ==
    /\ last.fn = "load_records"
    /\ IsReturned(last.result)
    /\ Len(last.result.value) > 0
    /\ StoreSize > 0

====
